---- MODULE Spec2Model ----
(***************************************************************************)
(* Mantaray 1.0 trie (src/src/index.ts, class MantarayNode / MantarayFork) *)
(* with the byte utilities it calls (src/unnamed/part_006) and the         *)
(* structural comparison used by the test-suite (src/unnamed/part_005).    *)
(*                                                                         *)
(* A node is a record; `forks` maps a key byte to [prefix, node], so the   *)
(* in-memory trie is a nested value.  A position is the sequence of fork   *)
(* keys leading from the root to a node.  A reference is [len, id]: `len`  *)
(* is its byte length and `id` stands for its bytes.  The storage is       *)
(* content addressed: the id of a chunk's reference is the chunk.          *)
(***************************************************************************)
EXTENDS Integers, Sequences, FiniteSets, TLC

VARIABLES
  root,          \* the in-memory trie the calls are made on
  store,         \* the chunks the storage holds
  storageRefLen, \* byte length of the references the storage returns
  lastMut,       \* the last mutating call: [op, path, attr, ok, clean, changed]
  saveLog,       \* outcomes of the save calls made since the last mutating call
  saveRef,       \* the reference returned by the last of those save calls
  saveWritten,   \* positions of the nodes written by the last of those save calls
  ops,           \* number of mutating calls and rejected storage writes so far
  added,         \* [pairs, distinct, pure]: the (path, entry) pairs added so far
  reloaded,      \* the outcome of load + loadAllNodes on saveRef
  ver,           \* the node class the direct calls are made on: "0.2" or "1.0"
  root02,        \* the in-memory trie of the 0.2 node class
  other02,       \* a second trie of the 0.2 node class, to compare with
  call,          \* the last call made directly on a node: [op, path, err, ...]
  calls,         \* number of the calls made directly on a node
  data,          \* the byte buffer encryptDecrypt works on, in place
  xorArgs,       \* [key, startIndex, original, once]: the arguments of
                 \* encryptDecrypt, the buffer before the first call and after it
  task           \* the recursiveSave tasks of a save in progress, by position:
                 \* [pc, changed, chunk]; <<>> when no save is in progress

\* the byte buffer and the arguments of encryptDecrypt
bufVars == <<data, xorArgs>>

\* the state of the calls made directly on a node or on a buffer
callVars == <<ver, root02, other02, call, calls, bufVars, task>>

vars == <<root, store, storageRefLen, lastMut, saveLog, saveRef, saveWritten,
          ops, added, reloaded, callVars>>

----------------------------------------------------------------------------
(* Bounds and program constants *)

\* number of mutating calls (addFork, removePath, setters) and of rejected
\* storage writes in one behaviour
MaxOps == 3

\* number of save calls between two mutating calls
MaxSaves == 2

\* NODE_FORK_SIZES.prefixMax
PrefixMax == 31

\* NODE_FORK_SIZES.preReference: bytes of a fork record before the reference
PreReference == 32

\* bytes of one fork-metadata segment and of the fork index bitmap
SegmentBytes == 32

\* upper limit of forkMetadataSegmentSize (5 bits of nodeFeatures)
MaxSegmentSize == 31

----------------------------------------------------------------------------
(* Values *)

NoRef == [len |-> 0, id |-> [data |-> 0]]
NoMeta == [len |-> 0, id |-> 0]

\* content references handed to addFork / the entry setter: 32 and 64 bytes
E32 == [len |-> 32, id |-> [data |-> 1]]
E32b == [len |-> 32, id |-> [data |-> 2]]
E64 == [len |-> 64, id |-> [data |-> 3]]

\* metadata mappings, with the byte length of their JSON encoding
M1 == [len |-> 14, id |-> 1]
M2 == [len |-> 40, id |-> 2]

\* the 32 zero bytes (null32Bytes)
ZeroKey == 0

Rep(b, n) == [i \in 1..n |-> b]

\* a 33 byte path: longer than the prefix ceiling by two bytes
LongPath == Rep(1, PrefixMax) \o <<2, 3>>

PathSet == {<<1>>, <<1, 2>>, <<1, 3>>, LongPath}

\* no obfuscationKeyGenerator passed to addFork
NoGen == 0

Attr(e, nm, fm) ==
  [entry |-> e, nodeMetadata |-> nm, forkMetadata |-> fm,
   obfuscationKeyGenerator |-> NoGen]

NoAttr == Attr(NoRef, NoMeta, NoMeta)

AttrSet == {Attr(E32, NoMeta, NoMeta),
            Attr(E64, NoMeta, NoMeta),
            Attr(E32b, M1, M2)}

----------------------------------------------------------------------------
(* MantarayNode: constructor, setters, dirty flag *)

NewNode ==
  [obfuscationKey |-> ZeroKey,
   hasEntry |-> FALSE,
   encEntry |-> FALSE,
   isEdge |-> FALSE,
   contentAddress |-> NoRef,
   entry |-> NoRef,
   nodeMetadata |-> NoMeta,
   forkMetadata |-> NoMeta,
   forkMetadataSegmentSize |-> 0,
   isContinuousNode |-> FALSE,
   forksDef |-> FALSE,
   forks |-> <<>>]

\* mutant: the setter drops the reference it is given
SetContentAddressDropped(n, contentAddress) == n

\* set contentAddress(contentAddress)
SetContentAddress(n, contentAddress) == [n EXCEPT !.contentAddress = contentAddress]

\* mutant: a node is reported dirty whatever its contentAddress
AlwaysDirty(n) == TRUE

isDirty(n) == n.contentAddress = NoRef

makeDirty(n) == [n EXCEPT !.contentAddress = NoRef]

\* set entry(entry): undefined only clears hasEntry and returns
SetEntry(n, e) ==
  IF e = NoRef
  THEN [n EXCEPT !.hasEntry = FALSE]
  ELSE makeDirty([n EXCEPT !.entry = e,
                           !.hasEntry = TRUE,
                           !.encEntry = IF e.len = 64 THEN TRUE ELSE @])

\* set nodeMetadata(metadata)
SetNodeMetadata(n, m) ==
  IF m = NoMeta
  THEN [n EXCEPT !.nodeMetadata = NoMeta]
  ELSE makeDirty([n EXCEPT !.nodeMetadata = m])

\* set forkMetadata(metadata): the undefined branch clears _nodeMetadata
SetForkMetadata(n, m) ==
  IF m = NoMeta
  THEN [n EXCEPT !.nodeMetadata = NoMeta]
  ELSE makeDirty([n EXCEPT !.forkMetadata = m])

\* set obfuscationKey(key)
SetObfuscationKey(n, k) == makeDirty([n EXCEPT !.obfuscationKey = k])

ForkKeys(n) == IF n.forksDef THEN DOMAIN n.forks ELSE {}

MantarayFork(prefix, node) == [prefix |-> prefix, node |-> node]

PutFork(n, k, fork) ==
  [n EXCEPT !.forks = (k :> fork) @@ n.forks]

\* mutant: the delete empties the fork map
DeleteAllForks(n, k) == [n EXCEPT !.forks = <<>>]

\* mutant: the fork stays in the map
KeepFork(n, k) == n

\* delete this.forks[k]
DeleteFork(n, k) ==
  [n EXCEPT !.forks = [x \in (DOMAIN n.forks) \ {k} |-> n.forks[x]]]

----------------------------------------------------------------------------
(* Byte utilities *)

Min(a, b) == IF a < b THEN a ELSE b

Slice(s, from) == SubSeq(s, from + 1, Len(s))

\* common(a, b): the bytes of a and b up to the first difference
RECURSIVE CommonLen(_, _, _)
CommonLen(a, b, i) ==
  IF i < Len(a) /\ i < Len(b) /\ a[i + 1] = b[i + 1]
  THEN CommonLen(a, b, i + 1)
  ELSE i

common(a, b) == SubSeq(a, 1, CommonLen(a, b, 0))

\* mutant: the comparison stops at the end of the shorter array
isPrefixedByUpToEnd(element, prefix) ==
  \A i \in 1..Min(Len(prefix), Len(element)) : element[i] = prefix[i]

\* isPrefixedBy(element, prefix): element[i] is undefined past its end
isPrefixedBy(element, prefix) ==
  \A i \in 1..Len(prefix) : i <= Len(element) /\ element[i] = prefix[i]

\* length of an obfuscation key: new Uint8Array(32)
KeyBytes == 32

\* mutant: the bytes are added modulo 256
AddBytes(a, b) == (a + b) % 256

\* a ^ b on two bytes
RECURSIVE Xor(_, _)
Xor(a, b) ==
  IF a = 0 THEN b
  ELSE IF b = 0 THEN a
  ELSE 2 * Xor(a \div 2, b \div 2) + ((a + b) % 2)

\* the loop of encryptDecrypt from index i (0-based): the chunk at i ends at
\* i + key.length or at the end of the data, whichever comes first
RECURSIVE XorChunks(_, _, _, _)
XorChunks(key, bytes, i, endIndex) ==
  IF i >= endIndex THEN bytes
  ELSE LET encryptionChunkEndIndex == Min(i + Len(key), Len(bytes))
       IN XorChunks(key,
                    [p \in 1..Len(bytes) |->
                       IF p - 1 >= i /\ p - 1 < encryptionChunkEndIndex
                       THEN Xor(bytes[p], key[((p - 1 - i) % Len(key)) + 1])
                       ELSE bytes[p]],
                    i + Len(key), endIndex)

\* encryptDecrypt(key, data, startIndex, endIndex): the buffer it leaves;
\* endIndex 0 stands for the argument not given (endIndex ||= data.length)
encryptDecrypt(key, bytes, startIndex, endIndex) ==
  IF key = Rep(0, KeyBytes) THEN bytes
  ELSE XorChunks(key, bytes, startIndex,
                 IF endIndex = 0 THEN Len(bytes) ELSE endIndex)

----------------------------------------------------------------------------
(* Trie operations *)

Ok(n) == [err |-> FALSE, node |-> n]
Err(n) == [err |-> TRUE, node |-> n]

\* handleTrimmedContinuousFork(fork): merge the continuous fork with its
\* only child, or refill the fork's prefix to 31 bytes from the child's
handleTrimmedContinuousFork(fork) ==
  LET forkKeys == ForkKeys(fork.node) IN
  IF ~fork.node.isContinuousNode \/ Cardinality(forkKeys) # 1
  THEN [err |-> TRUE, fork |-> fork]
  ELSE
    LET k == CHOOSE x \in forkKeys : TRUE
        childFork == fork.node.forks[k]
        commonPrefixLength == Len(fork.prefix) + Len(childFork.prefix)
        remainingPrefixBytes == PrefixMax - Len(fork.prefix)
    IN IF commonPrefixLength < PrefixMax
       THEN [err |-> FALSE,
             fork |-> MantarayFork(fork.prefix \o childFork.prefix, childFork.node)]
       ELSE [err |-> FALSE,
             fork |-> MantarayFork(
                fork.prefix \o SubSeq(childFork.prefix, 1, remainingPrefixBytes),
                [fork.node EXCEPT !.forks[k].prefix =
                    Slice(childFork.prefix, remainingPrefixBytes)])]

\* the obfuscation key of a node allocated under `this`, for the no-fork branch
NewChildNode(this, attributes) ==
  IF this.obfuscationKey = ZeroKey
  THEN Ok(NewNode)
  ELSE IF attributes.obfuscationKeyGenerator = NoGen
       THEN Err(NewNode)
       ELSE Ok(SetObfuscationKey(NewNode, attributes.obfuscationKeyGenerator))

\* the obfuscation key of the intermediate node allocated by a split
NewSplitNode(this, attributes) ==
  IF this.obfuscationKey = ZeroKey
  THEN Ok(SetObfuscationKey(NewNode, ZeroKey))
  ELSE IF attributes.obfuscationKeyGenerator = NoGen
       THEN Err(NewNode)
       ELSE Ok(SetObfuscationKey(NewNode, attributes.obfuscationKeyGenerator))

\* assertReference(ref): a byte array of 32 or 64 bytes
IsReference(ref) == ref.len \in {32, 64}

\* a value that is no metadata mapping: the array []
ArrayMeta == [len |-> 2, id |-> 3]

\* isMetadataMapping(metadata): an object that is not an array
isMetadataMapping(metadata) == metadata # ArrayMeta

\* addFork, path.length === 0: the attributes are applied to this node by
\* the three setters in turn; a setter that throws leaves what the setters
\* before it have stored
addForkHere(this, attributes) ==
  LET n1 == IF attributes.entry # NoRef THEN SetEntry(this, attributes.entry) ELSE this
      n2 == SetNodeMetadata(n1, attributes.nodeMetadata)
      n3 == SetForkMetadata(n2, attributes.forkMetadata)
  IN IF attributes.entry # NoRef /\ ~IsReference(attributes.entry) THEN Err(this)
     ELSE IF ~isMetadataMapping(attributes.nodeMetadata) THEN Err(n1)
     ELSE IF ~isMetadataMapping(attributes.forkMetadata) THEN Err(n2)
     ELSE Ok(n3)

\* a setter throws while the new leaf is filled in
NewLeafThrows(attributes) ==
  \/ attributes.entry # NoRef /\ ~IsReference(attributes.entry)
  \/ ~isMetadataMapping(attributes.forkMetadata)
  \/ ~isMetadataMapping(attributes.nodeMetadata)

\* addFork, create non-continuous node: the new leaf under the whole path
NewLeaf(newNode, attributes) ==
  LET n1 == IF attributes.entry # NoRef THEN SetEntry(newNode, attributes.entry) ELSE newNode
      n2 == SetForkMetadata(n1, attributes.forkMetadata)
      n3 == SetNodeMetadata(n2, attributes.nodeMetadata)
  IN n3

\* the parent's closing statements: this.forks[path[0]] = fork, isEdge, dirty
InstallFork(this, k, fork) ==
  makeDirty([PutFork(this, k, fork) EXCEPT !.isEdge = TRUE])

RECURSIVE addFork(_, _, _)
addFork(this, path, attributes) ==
  IF Len(path) = 0 THEN addForkHere(this, attributes)
  ELSE
    LET n0 == IF isDirty(this) /\ ~this.forksDef
              THEN [this EXCEPT !.forksDef = TRUE, !.forks = <<>>]
              ELSE this
    IN
    IF ~n0.forksDef THEN Err(n0)
    ELSE IF path[1] \notin DOMAIN n0.forks
    THEN \* no fork under the first byte
      LET c == NewChildNode(n0, attributes) IN
      IF c.err THEN Err(n0)
      ELSE IF Len(path) > PrefixMax
      THEN \* continuous node
        LET prefix == SubSeq(path, 1, PrefixMax)
            rest == Slice(path, PrefixMax)
            r == addFork(c.node, rest, attributes)
        IN IF r.err THEN Err(n0)
           ELSE Ok(InstallFork(n0, path[1],
                     MantarayFork(prefix, [r.node EXCEPT !.isContinuousNode = TRUE])))
      ELSE IF NewLeafThrows(attributes) THEN Err(n0)
      ELSE Ok(InstallFork(n0, path[1], MantarayFork(path, NewLeaf(c.node, attributes))))
    ELSE \* existing fork under the first byte
      LET fork == n0.forks[path[1]]
          commonPath == common(fork.prefix, path)
          restPath == Slice(fork.prefix, Len(commonPath))
          s == NewSplitNode(n0, attributes)
          newFork == MantarayFork(restPath, fork.node)
          h == IF fork.node.isContinuousNode
               THEN handleTrimmedContinuousFork(newFork)
               ELSE [err |-> FALSE, fork |-> newFork]
          split == [PutFork([s.node EXCEPT !.forksDef = TRUE], restPath[1], h.fork)
                      EXCEPT !.isEdge = TRUE]
      IN
      IF Len(restPath) > 0 /\ (s.err \/ h.err) THEN Err(n0)
      ELSE
        LET newNode == IF Len(restPath) > 0 THEN split ELSE fork.node
            r == addFork(newNode, Slice(path, Len(commonPath)), attributes)
            \* what the throwing call has changed in place below `this`: the
            \* existing child it ran on, or the continuous node whose child
            \* prefix handleTrimmedContinuousFork has cut
            touched == IF Len(restPath) = 0 THEN r.node
                       ELSE IF Len(h.fork.prefix) = PrefixMax THEN h.fork.node
                       ELSE fork.node
        IN IF r.err THEN Err([n0 EXCEPT !.forks[path[1]].node = touched])
           ELSE Ok(InstallFork(n0, path[1], MantarayFork(commonPath, r.node)))

\* getForkAtPath: the fork, the prefixes traversed, the position of the node
\* holding the fork and the key it is held under; err is "none" on success
RECURSIVE getForkAtPathFrom(_, _, _, _)
getForkAtPathFrom(this, path, prefixes, pos) ==
  LET fail(e) == [err |-> e, fork |-> MantarayFork(<<>>, NewNode),
                  prefixes |-> prefixes, holder |-> pos, key |-> 0]
  IN
  IF Len(path) = 0 THEN fail("empty")
  ELSE IF ~this.forksDef THEN fail("nomap")
  ELSE IF path[1] \notin DOMAIN this.forks THEN fail("notfound")
  ELSE
    LET fork == this.forks[path[1]] IN
    IF ~isPrefixedBy(path, fork.prefix) THEN fail("notfound")
    ELSE
      LET rest == Slice(path, Len(fork.prefix)) IN
      IF Len(rest) = 0
      THEN [err |-> "none", fork |-> fork,
            prefixes |-> Append(prefixes, fork.prefix), holder |-> pos,
            key |-> path[1]]
      ELSE getForkAtPathFrom(fork.node, rest,
                             Append(prefixes, fork.prefix), Append(pos, path[1]))

getForkAtPath(this, path) == getForkAtPathFrom(this, path, <<>>, <<>>)

\* removePath: same navigation; the fork is deleted in the node that holds it
\* and only that node is made dirty
RECURSIVE removePath(_, _)
removePath(this, path) ==
  IF Len(path) = 0 THEN Err(this)
  ELSE IF ~this.forksDef THEN Err(this)
  ELSE IF path[1] \notin DOMAIN this.forks THEN Err(this)
  ELSE
    LET fork == this.forks[path[1]] IN
    IF ~isPrefixedBy(path, fork.prefix) THEN Err(this)
    ELSE
      LET rest == Slice(path, Len(fork.prefix)) IN
      IF Len(rest) = 0
      THEN Ok(DeleteFork(makeDirty(this), path[1]))
      ELSE LET r == removePath(fork.node, rest) IN
           IF r.err THEN Err(this)
           ELSE Ok([this EXCEPT !.forks[path[1]].node = r.node])

----------------------------------------------------------------------------
(* Serialisation.  A chunk keeps the fields of the byte layout; the byte   *)
(* length of each part is kept exact, because deserialize cuts the buffer  *)
(* by lengths that it derives from the nodeFeatures byte alone.            *)

CeilDiv(a, b) == (a + b - 1) \div b

MaxOf(S) == IF S = {} THEN 0 ELSE CHOOSE x \in S : \A y \in S : y <= x

\* serializeMetadataInSegment: JSON followed by space padding up to the slot
serializeMetadataInSegment(metadata, segmentSize) ==
  IF metadata # NoMeta /\ segmentSize * SegmentBytes - metadata.len < 0
  THEN [err |-> TRUE, json |-> NoMeta, size |-> 0]
  ELSE [err |-> FALSE, json |-> metadata, size |-> segmentSize * SegmentBytes]

\* deserializeMetadata: trim the padding, parse; undefined if nothing parses
deserializeMetadata(slot) == slot.json

\* mutant: the prefix length byte is the length of the prefix, whatever the
\* child is
ForkSerializePlainLength(fork, segmentSize) ==
  LET m == IF segmentSize > 0
           THEN serializeMetadataInSegment(fork.node.forkMetadata, segmentSize)
           ELSE [err |-> FALSE, json |-> NoMeta, size |-> 0]
  IN [err |-> isDirty(fork.node) \/ m.err,
      prefixLength |-> Len(fork.prefix),
      prefixBytes |-> fork.prefix \o Rep(0, PrefixMax - Len(fork.prefix)),
      reference |-> fork.node.contentAddress,
      metadata |-> [json |-> m.json, size |-> m.size]]

\* MantarayFork.serialize(segmentSize)
ForkSerialize(fork, segmentSize) ==
  LET prefixLength == IF fork.node.isContinuousNode /\ Len(fork.prefix) = 31
                      THEN Len(fork.prefix) + 1
                      ELSE Len(fork.prefix)
      prefixBytes == fork.prefix \o Rep(0, PrefixMax - Len(fork.prefix))
      m == IF segmentSize > 0
           THEN serializeMetadataInSegment(fork.node.forkMetadata, segmentSize)
           ELSE [err |-> FALSE, json |-> NoMeta, size |-> 0]
  IN [err |-> isDirty(fork.node) \/ m.err,
      prefixLength |-> prefixLength,
      prefixBytes |-> prefixBytes,
      reference |-> fork.node.contentAddress,
      metadata |-> [json |-> m.json, size |-> m.size]]

\* MantarayFork.deserialize(data, encEntry) on a record cut at the right width
ForkDeserialize(rec) ==
  LET continuousNode == rec.prefixLength > PrefixMax
      prefixLength == IF continuousNode THEN 31 ELSE rec.prefixLength
      n0 == [NewNode EXCEPT !.isContinuousNode = continuousNode]
      n1 == IF rec.metadata.size > 0
            THEN SetForkMetadata(n0, deserializeMetadata(rec.metadata))
            ELSE n0
  IN MantarayFork(SubSeq(rec.prefixBytes, 1, prefixLength),
                  SetContentAddress(n1, rec.reference))

\* serializeFeatures: 5 bits of segment size, then isEdge, encEntry, hasEntry
serializeFeatures(n) ==
  ((n.forkMetadataSegmentSize * 2 + (IF n.isEdge THEN 1 ELSE 0)) * 2
     + (IF n.encEntry THEN 1 ELSE 0)) * 2 + (IF n.hasEntry THEN 1 ELSE 0)

\* deserializeFeatures
deserializeFeatures(n, nodeFeaturesByte) ==
  [n EXCEPT !.hasEntry = nodeFeaturesByte % 2 = 1,
            !.encEntry = (nodeFeaturesByte \div 2) % 2 = 1,
            !.isEdge = (nodeFeaturesByte \div 4) % 2 = 1,
            !.forkMetadataSegmentSize = nodeFeaturesByte \div 8]

\* the maximum selection among forkMetadata (autoForkMetadataSize)
AutoSegmentSize(n) ==
  MaxOf({n.forkMetadataSegmentSize} \cup
        {CeilDiv(n.forks[k].node.forkMetadata.len, SegmentBytes) :
           k \in {x \in DOMAIN n.forks : n.forks[x].node.forkMetadata # NoMeta}})

\* MantarayNode.serialize: [err, chunk, node]; node carries the side effects
\* (forks initialised, forkMetadataSegmentSize raised)
serialize(this) ==
  LET n0 == IF ~this.forksDef /\ this.entry # NoRef
            THEN [this EXCEPT !.forksDef = TRUE, !.forks = <<>>]
            ELSE this
      seg == IF n0.isEdge THEN AutoSegmentSize(n0) ELSE n0.forkMetadataSegmentSize
      n1 == [n0 EXCEPT !.forkMetadataSegmentSize = Min(seg, MaxSegmentSize)]
      forkRecs == IF n1.isEdge
                  THEN [k \in DOMAIN n1.forks |->
                          ForkSerialize(n1.forks[k], n1.forkMetadataSegmentSize)]
                  ELSE <<>>
      failed == \/ ~this.forksDef /\ this.entry = NoRef
                \/ seg > MaxSegmentSize
                \/ \E k \in DOMAIN forkRecs : forkRecs[k].err
                \/ n1.encEntry /\ ~n1.hasEntry
  IN [err |-> failed,
      node |-> n1,
      chunk |-> [obfuscationKey |-> n1.obfuscationKey,
                 version |-> "1.0",
                 nodeFeatures |-> serializeFeatures(n1),
                 entry |-> n1.entry,
                 hasIndex |-> n1.isEdge,
                 forks |-> [k \in DOMAIN forkRecs |->
                              [prefixLength |-> forkRecs[k].prefixLength,
                               prefixBytes |-> forkRecs[k].prefixBytes,
                               reference |-> forkRecs[k].reference,
                               metadata |-> forkRecs[k].metadata]],
                 nodeMetadata |-> n1.nodeMetadata]]

ForkRecordBytes(rec) == PreReference + rec.reference.len + rec.metadata.size

\* bytes of the buffer that follow the entry field
BytesAfterEntry(chunk) ==
  LET keys == DOMAIN chunk.forks
      forkBytes == IF keys = {} THEN 0
                   ELSE LET any == CHOOSE k \in keys : TRUE
                        IN Cardinality(keys) * ForkRecordBytes(chunk.forks[any])
  IN (IF chunk.hasIndex THEN SegmentBytes + forkBytes ELSE 0) + chunk.nodeMetadata.len

\* MantarayNode.deserialize(data) into `this`: [err, node].  A buffer that is
\* cut at widths other than the written ones either runs short (an error is
\* thrown) or yields bytes of neighbouring fields: both are reported as err.
deserialize(this, chunk) ==
  LET n0 == deserializeFeatures([this EXCEPT !.obfuscationKey = chunk.obfuscationKey],
                                chunk.nodeFeatures)
      refBytesSize == IF ~n0.hasEntry THEN 0 ELSE IF n0.encEntry THEN 64 ELSE 32
      written == chunk.entry.len
      \* a 64 byte slice of a buffer that ends after 32 bytes is the entry itself
      shortTail == refBytesSize = 64 /\ written = 32 /\ BytesAfterEntry(chunk) = 0
      \* entry bytes written without the hasEntry bit are read as node metadata
      strayEntry == refBytesSize = 0 /\ written > 0 /\ ~n0.isEdge
      entryAligned == refBytesSize = written \/ shortTail \/ strayEntry
      n1 == IF n0.hasEntry THEN SetEntry(n0, chunk.entry) ELSE n0
      forkSize == PreReference + (IF n0.encEntry THEN 64 ELSE 32)
                    + n0.forkMetadataSegmentSize * SegmentBytes
      forksAligned == \A k \in DOMAIN chunk.forks :
                         ForkRecordBytes(chunk.forks[k]) = forkSize
      n2 == IF n1.isEdge
            THEN [n1 EXCEPT !.forksDef = TRUE,
                            !.forks = [k \in DOMAIN chunk.forks |->
                                         ForkDeserialize(chunk.forks[k])]]
            ELSE n1
      n3 == IF strayEntry THEN [n2 EXCEPT !.nodeMetadata = NoMeta]
            ELSE IF chunk.nodeMetadata.len > 0
            THEN [n2 EXCEPT !.nodeMetadata = chunk.nodeMetadata]
            ELSE n2
  IN IF chunk.version # "1.0" \/ ~entryAligned \/ (n0.isEdge /\ ~forksAligned)
     THEN Err(this)
     ELSE Ok(n3)

----------------------------------------------------------------------------
(* Storage: save(bytes) returns the reference of the chunk, load(reference) *)
(* returns the chunk that was saved under it.                               *)

Ref(chunk) == [len |-> storageRefLen, id |-> chunk]

Stored(ref) == ref.len = storageRefLen /\ ref.id \in store

\* MantarayNode.load(storageLoader, reference)
load(this, reference) ==
  IF reference = NoRef \/ ~Stored(reference) THEN Err(this)
  ELSE LET d == deserialize(this, reference.id) IN
       IF d.err THEN Err(this)
       ELSE Ok(SetContentAddress(d.node, reference))

\* loadAllNodes(storageLoader, node)
RECURSIVE loadAllNodes(_)
loadAllNodes(node) ==
  IF ~node.forksDef THEN Ok(node)
  ELSE
    LET one(k) ==
          LET child == node.forks[k].node
              l == IF child.contentAddress # NoRef
                   THEN load(child, child.contentAddress)
                   ELSE Ok(child)
          IN IF l.err THEN l ELSE loadAllNodes(l.node)
        res == [k \in DOMAIN node.forks |-> one(k)]
    IN IF \E k \in DOMAIN res : res[k].err THEN Err(node)
       ELSE Ok([node EXCEPT !.forks =
                  [k \in DOMAIN node.forks |->
                     MantarayFork(node.forks[k].prefix, res[k].node)]])

\* recursiveSave at position pos; the storage rejects the writes of the
\* positions in `failing`.  The children are saved first, all of them (their
\* saves are issued together and none is cancelled when a sibling fails);
\* the result is the state once every issued save has settled.
RECURSIVE recursiveSave(_, _, _)
recursiveSave(this, pos, failing) ==
  LET n0 == IF ~this.forksDef
            THEN [this EXCEPT !.forksDef = TRUE, !.forks = <<>>]
            ELSE this
      savedReturns == [k \in DOMAIN n0.forks |->
                         recursiveSave(n0.forks[k].node, Append(pos, k), failing)]
      n1 == [n0 EXCEPT !.forks = [k \in DOMAIN n0.forks |->
                         MantarayFork(n0.forks[k].prefix, savedReturns[k].node)]]
      written == UNION {savedReturns[k].written : k \in DOMAIN savedReturns}
      rejected == UNION {savedReturns[k].rejected : k \in DOMAIN savedReturns}
      chunks == UNION {savedReturns[k].chunks : k \in DOMAIN savedReturns}
      s == serialize(n1)
      out(ok, node, changed, reference, w, rj, c) ==
        [ok |-> ok, node |-> node, changed |-> changed, reference |-> reference,
         written |-> w, rejected |-> rj, chunks |-> c]
  IN
  IF \E k \in DOMAIN savedReturns : ~savedReturns[k].ok
  THEN out(FALSE, n1, FALSE, NoRef, written, rejected, chunks)
  ELSE IF ~isDirty(n1) /\ \A k \in DOMAIN savedReturns : ~savedReturns[k].changed
  THEN out(TRUE, n1, FALSE, n1.contentAddress, written, rejected, chunks)
  ELSE IF s.err
  THEN out(FALSE, s.node, FALSE, NoRef, written, rejected, chunks)
  ELSE IF pos \in failing
  THEN out(FALSE, s.node, FALSE, NoRef, written, rejected \cup {pos}, chunks)
  ELSE out(TRUE, SetContentAddress(s.node, Ref(s.chunk)), TRUE, Ref(s.chunk),
           written \cup {pos}, rejected, chunks \cup {s.chunk})

----------------------------------------------------------------------------
(* equalNodes1_0(a, b) of the test utilities: TRUE when it does not throw *)

RECURSIVE equalNodes(_, _)
equalNodes(a, b) ==
  /\ a.isContinuousNode = b.isContinuousNode
  /\ a.hasEntry = b.hasEntry
  /\ a.encEntry = b.encEntry
  /\ a.isEdge = b.isEdge
  /\ a.forkMetadataSegmentSize = b.forkMetadataSegmentSize
  /\ a.nodeMetadata = b.nodeMetadata
  /\ a.forkMetadata = b.forkMetadata
  /\ a.entry = b.entry
  /\ \/ ~a.forksDef
     \/ /\ b.forksDef
        /\ Cardinality(DOMAIN a.forks) = Cardinality(DOMAIN b.forks)
        /\ \A k \in DOMAIN a.forks :
             /\ k \in DOMAIN b.forks
             /\ a.forks[k].prefix = b.forks[k].prefix
             /\ equalNodes(a.forks[k].node, b.forks[k].node)

----------------------------------------------------------------------------
(* Positions *)

RECURSIVE Positions(_)
Positions(n) ==
  {<<>>} \cup UNION {{<<k>> \o p : p \in Positions(n.forks[k].node)} : k \in ForkKeys(n)}

RECURSIVE NodeAt(_, _)
NodeAt(n, pos) ==
  IF Len(pos) = 0 THEN n ELSE NodeAt(n.forks[pos[1]].node, Tail(pos))

RECURSIVE UpdateAt(_, _, _)
UpdateAt(n, pos, new) ==
  IF Len(pos) = 0 THEN new
  ELSE [n EXCEPT !.forks[pos[1]].node = UpdateAt(n.forks[pos[1]].node, Tail(pos), new)]

Prefixes(pos) == {SubSeq(pos, 1, i) : i \in 0..Len(pos)}

IsLeaf(n) == ForkKeys(n) = {}

----------------------------------------------------------------------------
(* Mantaray 0.2 node (src/src/node.ts, class MantarayNode / MantarayFork). *)
(* The type byte is the set of its NodeType flags; an entry is the byte    *)
(* array the caller handed over: [len, id] are its bytes (id 0: all zero)  *)
(* and obj is the identity of the array object.                            *)

\* nodeForkSizes.prefixMaxSize()
PrefixMaxSize02 == 30

\* PATH_SEPARATOR_BYTE
PathSeparatorByte == 47

\* this.type === undefined
UndefinedType == {"undefined"}

\* !this.type
NoType(type) == type = UndefinedType \/ type = {}

Entry02(len, id, obj) == [len |-> len, id |-> id, obj |-> obj]

\* this.entry === undefined
NoEntry02 == Entry02(0, 0, 0)

NewNode02 ==
  [type |-> UndefinedType,
   obfuscationKey |-> "undefined",
   contentAddress |-> NoRef,
   entry |-> NoEntry02,
   metadata |-> NoMeta,
   forksDef |-> FALSE,
   forks |-> <<>>]

makeFlag02(n, flag) ==
  [n EXCEPT !.type = IF NoType(@) THEN {flag} ELSE @ \cup {flag}]

makeValue02(n) == makeFlag02(n, "value")

makeEdge02(n) == makeFlag02(n, "edge")

makeWithMetadata02(n) == makeFlag02(n, "withMetadata")

\* set setEntry(entry)
setEntry02(n, entry) ==
  LET n1 == [n EXCEPT !.entry = entry]
      n2 == IF entry.id # 0 THEN makeValue02(n1) ELSE n1
  IN makeDirty(n2)

\* set setObfuscationKey(obfuscationKey)
setObfuscationKey02(n, key) == makeDirty([n EXCEPT !.obfuscationKey = key])

\* set setMetadata(metadata); the metadata of the model holds no website key
setMetadata02(n, metadata) ==
  makeDirty(makeWithMetadata02([n EXCEPT !.metadata = metadata]))

\* updateWithPathSeparator(path): makeNotWithPathSeparator throws on a node
\* without type
updateWithPathSeparator02(n, path) ==
  IF \E i \in 2..Len(path) : path[i] = PathSeparatorByte
  THEN [err |-> FALSE, node |-> makeFlag02(n, "withPathSeparator")]
  ELSE IF NoType(n.type)
       THEN [err |-> TRUE, node |-> n]
       ELSE [err |-> FALSE, node |-> [n EXCEPT !.type = @ \ {"withPathSeparator"}]]

\* the inner while loop of findIndexOfArray: the value of j when it ends; j
\* is incremented by the comparison that breaks the loop as well
ComparedAt(element, searchFor, i) ==
  LET differ == {j \in 0..(Len(searchFor) - 1) : element[i + j + 1] # searchFor[j + 1]}
  IN IF differ = {}
     THEN Len(searchFor)
     ELSE (CHOOSE j \in differ : \A k \in differ : j <= k) + 1

\* findIndexOfArray(element, searchFor)
findIndexOfArray(element, searchFor) ==
  LET found == {i \in 0..(Len(element) - Len(searchFor)) :
                  ComparedAt(element, searchFor, i) = Len(searchFor)}
  IN IF found = {} THEN -1 ELSE CHOOSE i \in found : \A k \in found : i <= k

\* addFork(path, entry, metadata) of the 0.2 node
RECURSIVE addFork02(_, _, _, _)
addFork02(this, path, entry, metadata) ==
  IF Len(path) = 0
  THEN LET n1 == setEntry02(this, entry)
           n2 == IF metadata # NoMeta THEN setMetadata02(n1, metadata) ELSE n1
       IN Ok(makeDirty(n2))
  ELSE
  LET n0 == IF isDirty(this) /\ ~this.forksDef
            THEN [this EXCEPT !.forksDef = TRUE] ELSE this
  IN
  IF ~n0.forksDef THEN Err(this)
  ELSE IF path[1] \notin ForkKeys(n0)
  THEN LET fresh == IF this.obfuscationKey # "undefined"
                    THEN setObfuscationKey02(NewNode02, this.obfuscationKey)
                    ELSE NewNode02
       IN IF Len(path) > PrefixMaxSize02
          THEN LET prefix == SubSeq(path, 1, PrefixMaxSize02)
                   rest == Slice(path, PrefixMaxSize02)
                   sub == addFork02(fresh, rest, entry, metadata)
                   sep == updateWithPathSeparator02(sub.node, prefix)
               IN IF sub.err \/ sep.err THEN Err(this)
                  ELSE Ok(makeEdge02(makeDirty(
                            PutFork(n0, path[1], MantarayFork(prefix, sep.node)))))
          ELSE LET n1 == setEntry02(fresh, entry)
                   n2 == IF metadata # NoMeta THEN setMetadata02(n1, metadata) ELSE n1
                   sep == updateWithPathSeparator02(n2, path)
               IN IF sep.err THEN Err(this)
                  ELSE Ok(makeEdge02(makeDirty(
                            PutFork(n0, path[1], MantarayFork(path, sep.node)))))
  ELSE LET fork == n0.forks[path[1]]
           commonPath == common(fork.prefix, path)
           restPath == Slice(fork.prefix, Len(commonPath))
           moved == updateWithPathSeparator02(fork.node, restPath)
           split == makeEdge02(
                      PutFork([setObfuscationKey02(NewNode02,
                                 IF this.obfuscationKey # "undefined"
                                 THEN this.obfuscationKey ELSE "zero32")
                               EXCEPT !.forksDef = TRUE],
                              restPath[1], MantarayFork(restPath, moved.node)))
           newNode == IF Len(restPath) > 0
                      THEN IF Len(path) = Len(commonPath) THEN makeValue02(split) ELSE split
                      ELSE fork.node
           sep == updateWithPathSeparator02(newNode, commonPath)
           sub == addFork02(sep.node, Slice(path, Len(commonPath)), entry, metadata)
       IN IF (Len(restPath) > 0 /\ moved.err) \/ sep.err \/ sub.err THEN Err(this)
          ELSE Ok(makeDirty(makeEdge02(
                    PutFork(n0, path[1], MantarayFork(commonPath, sub.node)))))

NoFork02 == MantarayFork(<<>>, NewNode02)

\* getForkAtPath(path) of the 0.2 node: [err, fork]
RECURSIVE getForkAtPath02(_, _)
getForkAtPath02(this, path) ==
  IF Len(path) = 0 THEN [err |-> "empty", fork |-> NoFork02]
  ELSE IF ~this.forksDef THEN [err |-> "nomap", fork |-> NoFork02]
  ELSE IF path[1] \notin ForkKeys(this) THEN [err |-> "notfound", fork |-> NoFork02]
  ELSE LET fork == this.forks[path[1]]
           rest == Slice(path, Len(fork.prefix))
       IN IF findIndexOfArray(path, fork.prefix) = -1
          THEN [err |-> "notfound", fork |-> NoFork02]
          ELSE IF Len(rest) = 0 THEN [err |-> "none", fork |-> fork]
          ELSE getForkAtPath02(fork.node, rest)

\* removePath(path) of the 0.2 node: [err, node]
RECURSIVE removePath02(_, _)
removePath02(this, path) ==
  IF Len(path) = 0 THEN Err(this)
  ELSE IF ~this.forksDef THEN Err(this)
  ELSE IF path[1] \notin ForkKeys(this) THEN Err(this)
  ELSE LET fork == this.forks[path[1]]
           rest == Slice(path, Len(fork.prefix))
       IN IF findIndexOfArray(path, fork.prefix) = -1 THEN Err(this)
          ELSE IF Len(rest) = 0 THEN Ok(DeleteFork(makeDirty(this), path[1]))
          ELSE LET sub == removePath02(fork.node, rest)
               IN IF sub.err THEN Err(this)
                  ELSE Ok(PutFork(this, path[1], MantarayFork(fork.prefix, sub.node)))

\* createMetadataPadding(metadataSizeWithSize): number of padding bytes
createMetadataPadding(metadataSizeWithSize) ==
  IF metadataSizeWithSize < SegmentBytes
  THEN SegmentBytes - metadataSizeWithSize
  ELSE IF metadataSizeWithSize > SegmentBytes
       THEN SegmentBytes - (metadataSizeWithSize % SegmentBytes)
       ELSE 0

\* mutant: the fork record is built without looking at the child's reference
ForkSerializeAnyChild02(fork) ==
  [err |-> NoType(fork.node.type),
   nodeType |-> fork.node.type,
   prefixLength |-> Len(fork.prefix),
   prefixBytes |-> fork.prefix \o Rep(0, PrefixMaxSize02 - Len(fork.prefix)),
   reference |-> fork.node.contentAddress,
   metadata |-> NoMeta,
   metadataSize |-> 0]

\* MantarayFork.serialize() of the 0.2 class: getType and IsWithMetadataType
\* throw on a node without type, the reference is the child's contentAddress
ForkSerialize02(fork) ==
  LET withMetadata == "withMetadata" \in fork.node.type
      size == fork.node.metadata.len + 2
  IN [err |-> NoType(fork.node.type) \/ isDirty(fork.node),
      nodeType |-> fork.node.type,
      prefixLength |-> Len(fork.prefix),
      prefixBytes |-> fork.prefix \o Rep(0, PrefixMaxSize02 - Len(fork.prefix)),
      reference |-> fork.node.contentAddress,
      metadata |-> IF withMetadata THEN fork.node.metadata ELSE NoMeta,
      metadataSize |-> IF withMetadata
                       THEN fork.node.metadata.len + createMetadataPadding(size)
                       ELSE 0]

\* MantarayNode.serialize() of the 0.2 class: [err, node, chunk]; node carries
\* the side effects (obfuscation key, fork map and zero entry initialised)
serialize02(this) ==
  LET n1 == IF this.obfuscationKey = "undefined"
            THEN setObfuscationKey02(this, "zero32") ELSE this
      noEntry == ~n1.forksDef /\ n1.entry = NoEntry02
      n2 == IF noEntry THEN n1 ELSE [n1 EXCEPT !.forksDef = TRUE]
      n3 == IF ~noEntry /\ n2.entry = NoEntry02
            THEN [n2 EXCEPT !.entry = Entry02(32, 0, 0)] ELSE n2
      badLength == n3.entry.len \notin {32, 64}
      forkRecs == [k \in ForkKeys(n3) |-> ForkSerialize02(n3.forks[k])]
  IN [err |-> noEntry \/ badLength \/ \E k \in DOMAIN forkRecs : forkRecs[k].err,
      node |-> n3,
      chunk |-> [obfuscationKey |-> n3.obfuscationKey,
                 version |-> "0.2",
                 refBytesSize |-> n3.entry.len,
                 entry |-> [len |-> n3.entry.len, id |-> n3.entry.id],
                 forks |-> [k \in DOMAIN forkRecs |->
                              [nodeType |-> forkRecs[k].nodeType,
                               prefixLength |-> forkRecs[k].prefixLength,
                               prefixBytes |-> forkRecs[k].prefixBytes,
                               reference |-> forkRecs[k].reference,
                               metadata |-> forkRecs[k].metadata,
                               metadataSize |-> forkRecs[k].metadataSize]]]]

\* recursiveSave(storageSaver) of the 0.2 class with a storage that accepts
\* every write: [ok, node, changed]
RECURSIVE recursiveSave02(_)
recursiveSave02(this) ==
  LET n0 == [this EXCEPT !.forksDef = TRUE]
      saved == [k \in ForkKeys(n0) |-> recursiveSave02(n0.forks[k].node)]
      n1 == [n0 EXCEPT !.forks = [k \in DOMAIN saved |->
                                    MantarayFork(n0.forks[k].prefix, saved[k].node)]]
      s == serialize02(n1)
  IN IF \E k \in DOMAIN saved : ~saved[k].ok
     THEN [ok |-> FALSE, node |-> n1, changed |-> FALSE]
     ELSE IF ~isDirty(n1) /\ \A k \in DOMAIN saved : ~saved[k].changed
     THEN [ok |-> TRUE, node |-> n1, changed |-> FALSE]
     ELSE IF s.err
     THEN [ok |-> FALSE, node |-> s.node, changed |-> FALSE]
     ELSE [ok |-> TRUE,
           node |-> SetContentAddress(s.node, [len |-> 32, id |-> s.chunk]),
           changed |-> TRUE]

\* equalNodes(a, b) of the 0.2 class: TRUE when it does not throw.  getType
\* throws on a node without type, `a.getEntry === b.getEntry` compares the
\* identity of the two arrays (undefined === undefined holds), and a key of a
\* that b lacks makes `bFork.prefix` throw.
RECURSIVE equalNodes02(_, _)
equalNodes02(a, b) ==
  /\ a.type # UndefinedType
  /\ b.type # UndefinedType
  /\ a.type = b.type
  /\ (a.metadata = NoMeta) = (b.metadata = NoMeta)
  /\ a.metadata = b.metadata
  /\ ~(a.entry.obj = b.entry.obj)
  /\ \/ ~a.forksDef
     \/ /\ b.forksDef
        /\ Cardinality(ForkKeys(a)) = Cardinality(ForkKeys(b))
        /\ \A k \in ForkKeys(a) :
             /\ k \in ForkKeys(b)
             /\ a.forks[k].prefix = b.forks[k].prefix
             /\ equalNodes02(a.forks[k].node, b.forks[k].node)

----------------------------------------------------------------------------
(* The state machine: calls made on one root node and on the storage *)

Mut(op, path, attr, ok, clean, changed) ==
  [op |-> op, path |-> path, attr |-> attr, ok |-> ok,
   clean |-> clean, changed |-> changed]

NotReloaded == [state |-> "none", node |-> NewNode]

\* byte lengths of the references the storage returns: the storage of the
\* test-suite returns 32 byte references
RefLenSet == {32}

EntrySet == {NoRef, E32b}

MetaSet == {NoMeta, M1}

\* no node of the tree is dirty
FullySaved(n) == \A p \in Positions(n) : ~isDirty(NodeAt(n, p))

\* no call made directly on a node
NoCall == [op |-> "none", path |-> <<>>, err |-> "none"]

InitCalls(version) ==
  /\ ver = version
  /\ task = <<>>
  /\ root02 = NewNode02
  /\ other02 = NewNode02
  /\ call = NoCall
  /\ calls = 0

\* no buffer handed to encryptDecrypt
InitBuf ==
  /\ data = <<>>
  /\ xorArgs = [key |-> <<>>, startIndex |-> 0, original |-> <<>>, once |-> <<>>]

InitTrie ==
  /\ root = NewNode
  /\ store = {}
  /\ storageRefLen \in RefLenSet
  /\ lastMut = Mut("new", <<>>, NoAttr, TRUE, FALSE, FALSE)
  /\ saveLog = <<>>
  /\ saveRef = NoRef
  /\ saveWritten = {}
  /\ ops = 0
  /\ added = [pairs |-> {}, distinct |-> TRUE, pure |-> TRUE]
  /\ reloaded = NotReloaded

Init == InitTrie /\ InitCalls("1.0") /\ InitBuf

\* bookkeeping shared by the mutating calls
Mutated(op, path, attr, ok) ==
  /\ lastMut' = Mut(op, path, attr, ok, FullySaved(root), root' # root)
  /\ ops' = ops + 1
  /\ saveLog' = <<>>
  /\ saveRef' = NoRef
  /\ saveWritten' = {}
  /\ reloaded' = NotReloaded
  /\ UNCHANGED <<store, storageRefLen, callVars>>

\* root.addFork(path, attributes)
AddFork(path, attr) ==
  LET r == addFork(root, path, attr) IN
  /\ ops < MaxOps
  /\ root' = r.node
  /\ added' = [pairs |-> IF r.err THEN added.pairs
                         ELSE added.pairs \cup {[path |-> path, entry |-> attr.entry]},
               distinct |-> /\ added.distinct
                            /\ ~r.err
                            /\ attr.entry # NoRef
                            /\ \A a \in added.pairs : a.path # path,
               pure |-> added.pure /\ ~r.err]
  /\ Mutated("addFork", path, attr, ~r.err)

\* root.removePath(path)
RemovePath(path) ==
  LET r == removePath(root, path) IN
  /\ ops < MaxOps
  /\ root' = r.node
  /\ added' = [added EXCEPT !.distinct = FALSE, !.pure = FALSE]
  /\ Mutated("removePath", path, NoAttr, ~r.err)

\* node.entry = entry on the node at position pos
SetEntryAt(pos, entry) ==
  /\ ops < MaxOps
  /\ root' = UpdateAt(root, pos, SetEntry(NodeAt(root, pos), entry))
  /\ added' = [added EXCEPT !.distinct = FALSE, !.pure = FALSE]
  /\ Mutated("setEntry", pos, Attr(entry, NoMeta, NoMeta), TRUE)

\* node.nodeMetadata = metadata on the node at position pos
SetNodeMetadataAt(pos, metadata) ==
  /\ ops < MaxOps
  /\ root' = UpdateAt(root, pos, SetNodeMetadata(NodeAt(root, pos), metadata))
  /\ added' = [added EXCEPT !.distinct = FALSE, !.pure = FALSE]
  /\ Mutated("setNodeMetadata", pos, Attr(NoRef, metadata, NoMeta), TRUE)

\* root.save(storageSaver); the storage rejects the writes of `failing`
Save(failing) ==
  LET r == recursiveSave(root, <<>>, failing)
      outcome == IF r.ok THEN "ok" ELSE IF r.rejected # {} THEN "rejected" ELSE "error"
  IN
  /\ Len(saveLog) < MaxSaves
  /\ r.rejected = failing
  /\ failing # {} => ops < MaxOps
  /\ root' = r.node
  /\ store' = store \cup r.chunks
  /\ saveLog' = Append(saveLog, outcome)
  /\ saveRef' = r.reference
  /\ saveWritten' = r.written
  /\ ops' = IF failing # {} THEN ops + 1 ELSE ops
  /\ added' = [added EXCEPT !.pure = @ /\ r.ok]
  /\ reloaded' = NotReloaded
  /\ UNCHANGED <<storageRefLen, lastMut, callVars>>

LastSave == IF saveLog = <<>> THEN "none" ELSE saveLog[Len(saveLog)]

\* new MantarayNode().load(loader, saveRef), then loadAllNodes(loader, node)
LoadAllNodes ==
  LET l == load(NewNode, saveRef)
      all == IF l.err THEN l ELSE loadAllNodes(l.node)
  IN
  /\ LastSave = "ok"
  /\ reloaded = NotReloaded
  /\ reloaded' = [state |-> IF all.err THEN "failed" ELSE "loaded", node |-> all.node]
  /\ UNCHANGED <<root, store, storageRefLen, lastMut, saveLog, saveRef, saveWritten,
                 ops, added, callVars>>

FailSet == {{}} \cup {{p} : p \in Positions(root)}

Next ==
  \/ \E path \in PathSet, attr \in AttrSet : AddFork(path, attr)
  \/ \E path \in PathSet : RemovePath(path)
  \/ \E pos \in Positions(root), entry \in EntrySet : SetEntryAt(pos, entry)
  \/ \E pos \in Positions(root), metadata \in MetaSet : SetNodeMetadataAt(pos, metadata)
  \/ \E failing \in FailSet : Save(failing)
  \/ LoadAllNodes

Spec == Init /\ [][Next]_vars

----------------------------------------------------------------------------
(* Vocabulary of the properties *)

RECURSIVE Concat(_)
Concat(seqs) == IF seqs = <<>> THEN <<>> ELSE Head(seqs) \o Concat(Tail(seqs))

\* each fork under key k has a prefix of 1..31 bytes that starts with k
RECURSIVE RadixOk(_)
RadixOk(n) ==
  \A k \in ForkKeys(n) :
    /\ Len(n.forks[k].prefix) >= 1
    /\ Len(n.forks[k].prefix) <= PrefixMax
    /\ n.forks[k].prefix[1] = k
    /\ RadixOk(n.forks[k].node)

\* the contentAddress of every node is the reference of its present
\* serialisation, which the storage holds
RECURSIVE InSync(_)
InSync(n) ==
  /\ ~serialize(n).err
  /\ n.contentAddress = Ref(serialize(n).chunk)
  /\ Stored(n.contentAddress)
  /\ \A k \in ForkKeys(n) : InSync(n.forks[k].node)

SetterOps == {"setEntry", "setNodeMetadata"}

\* the step is a mutating call
MutStep == ops' = ops + 1 /\ saveLog' = <<>>

AddedPaths == {a.path : a \in added.pairs}

----------------------------------------------------------------------------
(* Properties *)

\* C1: a trie built from an empty root by addFork calls only, saved, then
\* loaded from the returned reference with load + loadAllNodes, compares
\* equal to the original under equalNodes.
C1_RoundTrip ==
  (reloaded.state # "none" /\ added.pure)
    => (reloaded.state = "loaded" /\ equalNodes(reloaded.node, root))

\* C2: after addFork calls with pairwise distinct paths, each with an entry,
\* getForkAtPath of every added path succeeds, the prefixes traversed
\* concatenate to the path and the fork's node has the entry added with it.
C2_LookupAfterAdd ==
  added.distinct =>
    \A a \in added.pairs :
      LET g == getForkAtPath(root, a.path) IN
      /\ g.err = "none"
      /\ Concat(g.prefixes) = a.path
      /\ g.fork.node.hasEntry
      /\ g.fork.node.entry = a.entry

\* C3: in every node each fork stored under key k has a prefix of length
\* 1..31 whose first byte is k.
C3_RadixInvariant == RadixOk(root)

\* C4: an addFork or removePath through the root of a fully saved tree leaves
\* the changed node and each of its ancestors, the root included, dirty.
C4_DirtyPropagation ==
  [][(MutStep /\ lastMut'.ok /\ lastMut'.clean
        /\ lastMut'.op \in {"addFork", "removePath"})
      => LET before == getForkAtPath(root, lastMut'.path)
             after == getForkAtPath(root', lastMut'.path)
             touched == IF lastMut'.op = "removePath"
                        THEN Prefixes(before.holder)
                        ELSE Prefixes(after.holder) \cup
                               (IF after.err = "none"
                                THEN {Append(after.holder, after.key)}
                                ELSE {})
         IN \A p \in touched : isDirty(NodeAt(root', p))]_vars

\* C5: after a successful save no node is dirty, every node's contentAddress
\* is a reference the storage holds, for the nodes written by this save the
\* reference of their serialisation, and save returned the root's
\* contentAddress.
C5_SaveClearsDirty ==
  LastSave = "ok" =>
    /\ FullySaved(root)
    /\ saveRef = root.contentAddress
    /\ \A p \in Positions(root) : Stored(NodeAt(root, p).contentAddress)
    /\ \A p \in saveWritten :
         /\ p \in Positions(root)
         /\ NodeAt(root, p).contentAddress = Ref(serialize(NodeAt(root, p)).chunk)

C5_Witness ==
  /\ LastSave = "ok"
  /\ Cardinality(Positions(root)) >= 3
  /\ Cardinality(saveWritten) >= 3

\* C6: a save that directly follows a successful save, with no mutating call
\* between them, succeeds, writes nothing and returns the same reference.
C6_SecondSaveWritesNothing ==
  [][(LastSave = "ok" /\ saveLog' = Append(saveLog, LastSave'))
      => /\ LastSave' = "ok"
         /\ saveWritten' = {}
         /\ store' = store
         /\ saveRef' = saveRef]_vars

C6_Witness ==
  /\ saveLog = <<"ok", "ok">>
  /\ Cardinality(Positions(root)) >= 3
  /\ saveWritten = {}

\* C7: when one leaf of a fully saved tree was changed through a setter, the
\* next save writes the nodes on the path from that leaf to the root, each
\* once, and no other node.
C7_OneLeafChanged ==
  (/\ saveLog = <<"ok">>
   /\ lastMut.op \in SetterOps
   /\ lastMut.clean
   /\ lastMut.changed
   /\ IsLeaf(NodeAt(root, lastMut.path)))
    => saveWritten = Prefixes(lastMut.path)

\* C8: when a descendant of a fully saved root was changed through its own
\* entry or nodeMetadata setter, root.save followed by load + loadAllNodes of
\* the returned reference gives a tree whose node at the same position has
\* the new value.
C8_SaveWalksWholeTree ==
  (/\ reloaded.state # "none"
   /\ saveLog[1] = "ok"
   /\ lastMut.op \in SetterOps
   /\ lastMut.clean
   /\ lastMut.changed
   /\ Len(lastMut.path) > 0)
    => /\ reloaded.state = "loaded"
       /\ lastMut.path \in Positions(reloaded.node)
       /\ LET n == NodeAt(reloaded.node, lastMut.path) IN
          IF lastMut.op = "setEntry"
          THEN /\ n.hasEntry = (lastMut.attr.entry # NoRef)
               /\ n.entry = lastMut.attr.entry
          ELSE n.nodeMetadata = lastMut.attr.nodeMetadata

\* C9: after a save in which the storage rejected a write, the written nodes
\* have a contentAddress and every ancestor of a written node that was not
\* written is dirty; after the save that follows, the reference returned is
\* the root's and every node's contentAddress is the stored reference of its
\* present serialisation.
C9_SaveFailureResume ==
  /\ LastSave = "rejected" =>
       \A p \in saveWritten :
         /\ ~isDirty(NodeAt(root, p))
         /\ \A q \in Prefixes(p) \ saveWritten : isDirty(NodeAt(root, q))
  /\ saveLog = <<"rejected", "ok">> =>
       /\ saveRef = root.contentAddress
       /\ InSync(root)

\* C10: a successful removePath(p) of an added path p deletes the fork key in
\* the node that held the fork, leaves that node's other forks as they were
\* and every other node unchanged but for that node's dirty flag, and
\* getForkAtPath(p) then fails with not-found.
C10_Removal ==
  [][(MutStep /\ lastMut'.op = "removePath" /\ lastMut'.ok
        /\ lastMut'.path \in AddedPaths)
      => LET g == getForkAtPath(root, lastMut'.path)
             holder == NodeAt(root, g.holder)
         IN /\ g.err = "none"
            /\ g.holder \in Positions(root')
            /\ LET holderAfter == NodeAt(root', g.holder) IN
               /\ DOMAIN holderAfter.forks = (DOMAIN holder.forks) \ {g.key}
               /\ \A k \in DOMAIN holderAfter.forks :
                    holderAfter.forks[k] = holder.forks[k]
            /\ getForkAtPath(root', lastMut'.path).err = "notfound"]_vars

C10_Witness ==
  /\ lastMut.op = "removePath"
  /\ lastMut.ok
  /\ lastMut.path \in AddedPaths
  /\ LET g == getForkAtPath(root, lastMut.path) IN
     /\ g.err = "notfound"
     /\ Len(g.holder) > 0
     /\ ForkKeys(NodeAt(root, g.holder)) # {}

\* path begins with prefix
StartsWith(path, prefix) ==
  Len(prefix) <= Len(path) /\ SubSeq(path, 1, Len(prefix)) = prefix

\* the path is empty, or at some level no fork is keyed by the next path
\* byte, or the remaining path does not begin with the selected fork's prefix
RECURSIVE NoSuchPath(_, _)
NoSuchPath(n, path) ==
  \/ Len(path) = 0
  \/ path[1] \notin ForkKeys(n)
  \/ ~StartsWith(path, n.forks[path[1]].prefix)
  \/ /\ Len(path) > Len(n.forks[path[1]].prefix)
     /\ NoSuchPath(n.forks[path[1]].node, Slice(path, Len(n.forks[path[1]].prefix)))

----------------------------------------------------------------------------
(* Calls on one root node of the 0.2 class *)

\* calls made on the 0.2 root in one behaviour
MaxCalls02 == 3

\* the byte arrays handed over as entries
A1 == Entry02(32, 1, 1)
A2 == Entry02(32, 2, 2)

EntrySet02 == {A1, A2}

\* paths over two bytes, and one longer than the prefix ceiling
PathSet02 ==
  {<<1>>, <<2>>, <<1, 1>>, <<1, 2>>, <<2, 1>>, <<1, 2, 1>>, <<1, 2, 2>>,
   <<1, 1, 2>>, <<2, 1, 2>>, Rep(1, PrefixMaxSize02) \o <<2, 1>>}

\* the variables of the 1.0 trie, which these calls leave alone
trieVars == <<root, store, storageRefLen, lastMut, saveLog, saveRef, saveWritten,
              ops, added, reloaded>>

Called(op, path, err) == [op |-> op, path |-> path, err |-> err]

\* root.addFork(path, entry, metadata)
AddFork02(path, entry, metadata) ==
  LET r == addFork02(root02, path, entry, metadata) IN
  /\ ver = "0.2"
  /\ root02' = r.node
  /\ call' = Called("addFork", path, IF r.err THEN "error" ELSE "none")
  /\ calls' = calls + 1
  /\ UNCHANGED <<ver, other02, trieVars, bufVars, task>>

\* root.getForkAtPath(path)
GetForkAtPath02(path) ==
  LET r == getForkAtPath02(root02, path) IN
  /\ ver = "0.2"
  /\ call' = [op |-> "getForkAtPath", path |-> path, err |-> r.err, fork |-> r.fork]
  /\ calls' = calls + 1
  /\ UNCHANGED <<ver, root02, other02, trieVars, bufVars, task>>

\* root.removePath(path)
RemovePath02(path) ==
  LET r == removePath02(root02, path) IN
  /\ ver = "0.2"
  /\ root02' = r.node
  /\ call' = Called("removePath", path, IF r.err THEN "error" ELSE "none")
  /\ calls' = calls + 1
  /\ UNCHANGED <<ver, other02, trieVars, bufVars, task>>

Next02 ==
  \/ \E path \in PathSet02, entry \in EntrySet02, metadata \in MetaSet :
       calls < MaxCalls02 /\ AddFork02(path, entry, metadata)
  \/ \E path \in PathSet02 : calls < MaxCalls02 /\ GetForkAtPath02(path)
  \/ \E path \in PathSet02 : calls < MaxCalls02 /\ RemovePath02(path)

Init02 == InitTrie /\ InitCalls("0.2") /\ InitBuf

Spec02 == Init02 /\ [][Next02]_vars

\* C12: getForkAtPath and removePath of the 0.2 node fail whenever the path
\* leaves the trie (at some level the remaining path does not begin with the
\* prefix of the fork selected by its first byte), so no fork is returned or
\* deleted for a path that is not a concatenation of fork prefixes from the
\* root.
C12_PrefixMatch02 ==
  [][(calls' = calls + 1 /\ call'.op \in {"getForkAtPath", "removePath"}
        /\ NoSuchPath(root02, call'.path))
      => (call'.err # "none" /\ root02' = root02)]_vars

----------------------------------------------------------------------------
(* Calls made directly on the nodes of a trie of either class, serialize()  *)
(* among them                                                               *)

\* calls made in one behaviour
MaxCallsSer == 5

PathSetSer == {<<1>>, <<1, 2>>, <<1, 3>>}

\* fork metadata that fits one segment or needs two, and a 64 byte entry
AttrSetSer == {Attr(E32, NoMeta, M1), Attr(E32, NoMeta, M2), Attr(E64, NoMeta, NoMeta)}

\* the variables of both tries' bookkeeping that the 1.0 calls leave alone
callFrame == <<storageRefLen, lastMut, saveLog, saveRef, saveWritten, ops,
               reloaded, ver, root02, other02, bufVars, task>>

\* root.addFork(path, attributes) on the 1.0 root
AddForkCall(path, attr) ==
  LET r == addFork(root, path, attr) IN
  /\ ver = "1.0"
  /\ root' = r.node
  /\ added' = [pairs |-> IF r.err THEN added.pairs
                         ELSE added.pairs \cup {[path |-> path, entry |-> attr.entry]},
               distinct |-> /\ added.distinct
                            /\ ~r.err
                            /\ attr.entry # NoRef
                            /\ \A a \in added.pairs : a.path # path,
               pure |-> added.pure /\ ~r.err]
  /\ call' = [op |-> "addFork", path |-> path,
              err |-> IF r.err THEN "error" ELSE "none", attr |-> attr]
  /\ calls' = calls + 1
  /\ UNCHANGED <<store, callFrame>>

\* root.removePath(path) on the 1.0 root
RemovePathCall(path) ==
  LET r == removePath(root, path) IN
  /\ ver = "1.0"
  /\ root' = r.node
  /\ call' = Called("removePath", path, IF r.err THEN "error" ELSE "none")
  /\ calls' = calls + 1
  /\ UNCHANGED <<store, added, callFrame>>

\* root.save(storageSaver) on the 1.0 root, the storage accepts every write
SaveCall ==
  LET r == recursiveSave(root, <<>>, {}) IN
  /\ ver = "1.0"
  /\ root' = r.node
  /\ store' = store \cup r.chunks
  /\ call' = Called("save", <<>>, IF r.ok THEN "none" ELSE "error")
  /\ calls' = calls + 1
  /\ UNCHANGED <<added, callFrame>>

\* node.serialize() on the 1.0 node at position pos
SerializeCall(pos) ==
  LET s == serialize(NodeAt(root, pos)) IN
  /\ ver = "1.0"
  /\ root' = UpdateAt(root, pos, s.node)
  /\ call' = [op |-> "serialize", path |-> pos,
              err |-> IF s.err THEN "error" ELSE "none", chunk |-> s.chunk]
  /\ calls' = calls + 1
  /\ UNCHANGED <<store, added, callFrame>>

\* root.save(storageSaver) on the 0.2 root
Save02 ==
  LET r == recursiveSave02(root02) IN
  /\ ver = "0.2"
  /\ root02' = r.node
  /\ call' = Called("save", <<>>, IF r.ok THEN "none" ELSE "error")
  /\ calls' = calls + 1
  /\ UNCHANGED <<ver, other02, trieVars, bufVars, task>>

\* node.serialize() on the 0.2 node at position pos
Serialize02(pos) ==
  LET s == serialize02(NodeAt(root02, pos)) IN
  /\ ver = "0.2"
  /\ root02' = UpdateAt(root02, pos, s.node)
  /\ call' = [op |-> "serialize", path |-> pos,
              err |-> IF s.err THEN "error" ELSE "none", chunk |-> s.chunk]
  /\ calls' = calls + 1
  /\ UNCHANGED <<ver, other02, trieVars, bufVars, task>>

NextSer ==
  \/ \E path \in PathSetSer, attr \in AttrSetSer :
       calls < MaxCallsSer /\ AddForkCall(path, attr)
  \/ \E path \in PathSetSer : calls < MaxCallsSer /\ RemovePathCall(path)
  \/ calls < MaxCallsSer /\ SaveCall
  \/ \E pos \in Positions(root) : calls < MaxCallsSer /\ SerializeCall(pos)
  \/ \E path \in PathSetSer : calls < MaxCallsSer /\ AddFork02(path, A1, M1)
  \/ \E path \in PathSetSer : calls < MaxCallsSer /\ RemovePath02(path)
  \/ calls < MaxCallsSer /\ Save02
  \/ \E pos \in Positions(root02) : calls < MaxCallsSer /\ Serialize02(pos)

InitSer == InitBuf /\ InitTrie /\ \E version \in {"0.2", "1.0"} : InitCalls(version)

SpecSer == InitSer /\ [][NextSer]_vars

\* the node the last call was made on, before (root, root02 unprimed) the call
CalledNode(pos) == IF ver = "1.0" THEN NodeAt(root, pos) ELSE NodeAt(root02, pos)

----------------------------------------------------------------------------
(* addFork calls with every combination of attributes, and paths longer    *)
(* than two fork prefixes                                                  *)

\* calls made in one behaviour
MaxCallsAdd == 3

\* a 66 byte path: 31 + 31 + 4 bytes
Path66 == Rep(1, PrefixMax) \o Rep(2, PrefixMax) \o <<3, 3, 3, 3>>

PathSetAdd == {<<1>>, <<1, 2>>, <<1, 3>>, Path66}

AttrSetAdd ==
  {Attr(e, nm, fm) : e \in {NoRef, E32}, nm \in {NoMeta, M1}, fm \in {NoMeta, M2}}

NextAdd ==
  \/ \E path \in PathSetAdd, attr \in AttrSetAdd :
       calls < MaxCallsAdd /\ AddForkCall(path, attr)
  \/ calls < MaxCallsAdd /\ SaveCall

SpecAdd == Init /\ [][NextAdd]_vars

\* the only fork of a node
OnlyFork(n) == n.forks[CHOOSE k \in ForkKeys(n) : TRUE]

\* the only call made so far that changed the trie is addFork(Path66, ...),
\* on the empty root
OnlyPath66Added ==
  /\ \E a \in added.pairs : added.pairs = {a} /\ a.path = Path66
  /\ \/ calls = 1
     \/ calls = 2 /\ call.op = "save" /\ call.err = "none"

\* the root after addFork(Path66): one fork of 31 bytes to a continuous
\* child with one fork; the root's record has prefixLength 32 once saved
Path66Head ==
  /\ Cardinality(ForkKeys(root)) = 1
  /\ OnlyFork(root).prefix = SubSeq(Path66, 1, PrefixMax)
  /\ OnlyFork(root).node.isContinuousNode
  /\ Cardinality(ForkKeys(OnlyFork(root).node)) = 1
  /\ call.op = "save"
       => \A k \in DOMAIN root.contentAddress.id.forks :
            root.contentAddress.id.forks[k].prefixLength = PrefixMax + 1

\* C14 as stated: the only fork of the continuous child carries all the
\* remaining 35 bytes of the 66 byte path.
C14_ContinuousNode ==
  OnlyPath66Added
    => /\ Path66Head
       /\ OnlyFork(OnlyFork(root).node).prefix = Slice(Path66, PrefixMax)

\* C14, amended: the only fork of the continuous child carries the next 31
\* bytes and leads to a second continuous node, whose only fork carries the
\* last 4 bytes; both 31 byte prefixes are written with prefixLength 32.
C14_ContinuousChain ==
  OnlyPath66Added
    => LET second == OnlyFork(OnlyFork(root).node)
           third == OnlyFork(second.node)
       IN /\ Path66Head
          /\ second.prefix = SubSeq(Path66, PrefixMax + 1, 2 * PrefixMax)
          /\ second.node.isContinuousNode
          /\ Cardinality(ForkKeys(second.node)) = 1
          /\ third.prefix = Slice(Path66, 2 * PrefixMax)
          /\ ~third.node.isContinuousNode
          /\ ForkKeys(third.node) = {}
          /\ call.op = "save"
               => \A k \in DOMAIN OnlyFork(root).node.contentAddress.id.forks :
                    OnlyFork(root).node.contentAddress.id.forks[k].prefixLength
                      = PrefixMax + 1

C14_Witness ==
  /\ OnlyPath66Added
  /\ call.op = "save"
  /\ ~isDirty(root)

\* the attributes found on a node: the entry only if hasEntry is set
Carried(n) ==
  [entry |-> IF n.hasEntry THEN n.entry ELSE NoRef,
   nodeMetadata |-> n.nodeMetadata,
   forkMetadata |-> n.forkMetadata,
   obfuscationKeyGenerator |-> NoGen]

\* C15: after the first addFork(p, attributes) for a path p, the node of
\* getForkAtPath(p) has exactly the entry, nodeMetadata and forkMetadata that
\* were given and lacks the ones that were not, wherever p ends.
C15_AttributesStored ==
  [][(calls' = calls + 1 /\ call'.op = "addFork" /\ call'.err = "none"
        /\ \A a \in added.pairs : a.path # call'.path)
      => /\ getForkAtPath(root', call'.path).err = "none"
         /\ Carried(getForkAtPath(root', call'.path).fork.node) = call'.attr]_vars

\* C16: when a node has forkMetadataSegmentSize = 1 and one of its children
\* carries fork metadata of more than 32 bytes, serialising the node (by
\* serialize() or by save()) fails.
C16_MetadataOverflow ==
  [][(calls' = calls + 1 /\ ver = "1.0" /\ call'.op \in {"serialize", "save"}
        /\ NodeAt(root, call'.path).forkMetadataSegmentSize = 1
        /\ \E k \in ForkKeys(NodeAt(root, call'.path)) :
             NodeAt(root, call'.path).forks[k].node.forkMetadata.len > SegmentBytes)
      => call'.err # "none"]_vars

\* C17: for every node that serialize() accepts, deserialize(serialize(n))
\* into a fresh node succeeds and yields the same flags, segment size and
\* entry, the same fork keys and, for each fork, the same prefix, child
\* reference, continuous flag and fork metadata.
C17_SerializeRoundTrip ==
  [][(calls' = calls + 1 /\ ver = "1.0" /\ call'.op = "serialize"
        /\ call'.err = "none")
      => LET n == NodeAt(root', call'.path)
             d == deserialize(NewNode, call'.chunk)
         IN /\ ~d.err
            /\ d.node.hasEntry = n.hasEntry
            /\ d.node.encEntry = n.encEntry
            /\ d.node.isEdge = n.isEdge
            /\ d.node.forkMetadataSegmentSize = n.forkMetadataSegmentSize
            /\ n.hasEntry => d.node.entry = n.entry
            /\ ForkKeys(d.node) = ForkKeys(n)
            /\ \A k \in ForkKeys(n) :
                 /\ d.node.forks[k].prefix = n.forks[k].prefix
                 /\ d.node.forks[k].node.contentAddress = n.forks[k].node.contentAddress
                 /\ d.node.forks[k].node.isContinuousNode
                      = n.forks[k].node.isContinuousNode
                 /\ d.node.forks[k].node.forkMetadata = n.forks[k].node.forkMetadata]_vars

----------------------------------------------------------------------------
(* Two tries of the 0.2 class built by addFork calls, and equalNodes *)

\* calls made in one behaviour
MaxCallsEq == 4

\* a second array with the bytes of A1
A1Copy == Entry02(32, 1, 3)

\* the empty path sets the entry of the root itself
PathSetEq == {<<>>, <<1>>, <<1, 2>>}

\* other.addFork(path, entry, metadata) on the second root
AddForkOther02(path, entry, metadata) ==
  LET r == addFork02(other02, path, entry, metadata) IN
  /\ ver = "0.2"
  /\ other02' = r.node
  /\ call' = Called("addFork", path, IF r.err THEN "error" ELSE "none")
  /\ calls' = calls + 1
  /\ UNCHANGED <<ver, root02, trieVars, bufVars, task>>

\* equalNodes(root, root) when self, equalNodes(root, other) otherwise
EqualNodesCall(self) ==
  LET b == IF self THEN root02 ELSE other02 IN
  /\ ver = "0.2"
  /\ call' = [op |-> "equalNodes", path |-> <<>>,
              err |-> IF equalNodes02(root02, b) THEN "none" ELSE "error",
              self |-> self]
  /\ calls' = calls + 1
  /\ UNCHANGED <<ver, root02, other02, trieVars, bufVars, task>>

NextEq ==
  \/ \E path \in PathSetEq, entry \in {A1, A2}, metadata \in MetaSet :
       calls < MaxCallsEq /\ AddFork02(path, entry, metadata)
  \/ \E path \in PathSetEq, entry \in {A1, A1Copy, A2}, metadata \in MetaSet :
       calls < MaxCallsEq /\ AddForkOther02(path, entry, metadata)
  \/ \E self \in BOOLEAN : calls < MaxCallsEq /\ EqualNodesCall(self)

SpecEq == Init02 /\ [][NextEq]_vars

\* same nodeType, deep-equal metadata, byte-equal entries, the same fork keys
\* with byte-equal prefixes and recursively equal child nodes
RECURSIVE StructurallyEqual02(_, _)
StructurallyEqual02(a, b) ==
  /\ a.type = b.type
  /\ a.metadata = b.metadata
  /\ a.entry.len = b.entry.len
  /\ a.entry.id = b.entry.id
  /\ ForkKeys(a) = ForkKeys(b)
  /\ \A k \in ForkKeys(a) :
       /\ a.forks[k].prefix = b.forks[k].prefix
       /\ StructurallyEqual02(a.forks[k].node, b.forks[k].node)

\* C18: equalNodes(a, b) of the 0.2 class completes without error exactly
\* when a and b are structurally equal; in particular equalNodes(n, n)
\* completes for every node n.
C18_EqualNodes02 ==
  [][(calls' = calls + 1 /\ call'.op = "equalNodes")
      => /\ (call'.err = "none")
              = StructurallyEqual02(root02, IF call'.self THEN root02 ELSE other02)
         /\ call'.self => call'.err = "none"]_vars

----------------------------------------------------------------------------
(* encryptDecrypt applied to a buffer, twice *)

\* keys of 32 bytes: all zero, all different bytes, only the last byte set
KeySet == {Rep(0, KeyBytes), [i \in 1..KeyBytes |-> 7 * i], Rep(0, KeyBytes - 1) \o <<255>>}

\* a buffer of n bytes
Buffer(n, m) == [i \in 1..n |-> (m * i + 3) % 256]

\* buffers shorter than a key, as long as a key, and longer than two keys
BufferSet == {Buffer(n, m) : n \in {0, 1, 32, 33, 70}, m \in {0, 11}}

\* start indexes before, at and past the end of the first key-sized chunk
StartSet == {0, 1, 32, 33, 71}

InitXor ==
  /\ InitTrie
  /\ InitCalls("1.0")
  /\ data \in BufferSet
  /\ \E key \in KeySet, startIndex \in StartSet :
       xorArgs = [key |-> key, startIndex |-> startIndex,
                  original |-> data, once |-> data]

\* encryptDecrypt(key, data, startIndex)
EncryptDecrypt ==
  /\ calls < 2
  /\ data' = encryptDecrypt(xorArgs.key, data, xorArgs.startIndex, 0)
  /\ xorArgs' = IF calls = 0 THEN [xorArgs EXCEPT !.once = data'] ELSE xorArgs
  /\ calls' = calls + 1
  /\ call' = Called("encryptDecrypt", <<>>, "none")
  /\ UNCHANGED <<ver, root02, other02, trieVars, task>>

NextXor == EncryptDecrypt

SpecXor == InitXor /\ [][NextXor]_vars

\* C19: two applications of encryptDecrypt with the same key and start index
\* restore the buffer byte for byte, and one application with the all-zero
\* key leaves it unchanged.
C19_XorSymmetry ==
  /\ calls = 2 => data = xorArgs.original
  /\ (calls = 1 /\ xorArgs.key = Rep(0, KeyBytes)) => data = xorArgs.original

\* the first application changed bytes of more than one key-sized chunk
C19_Witness ==
  /\ calls = 2
  /\ xorArgs.key # Rep(0, KeyBytes)
  /\ xorArgs.once # xorArgs.original
  /\ Len(data) > xorArgs.startIndex + KeyBytes
  /\ xorArgs.once[Len(data)] # xorArgs.original[Len(data)]

----------------------------------------------------------------------------
(* root.save() step by step.  recursiveSave starts the save of every child  *)
(* before its first await, so one call starts a task on every node; a task  *)
(* resumes when Promise.all of its children's tasks settles, and the        *)
(* storage completes the writes it was handed in any order.  The caller     *)
(* makes its next call once the save has settled and no write is pending.   *)

\* calls made on the root, and writes rejected, in one behaviour
MaxCallsSave == 5

PathSetSave == {<<1>>, <<1, 2>>, <<1, 3>>, <<2>>}

AttrSave == Attr(E32, NoMeta, NoMeta)

NoChunk == [version |-> "none"]

Task(pc, changed, chunk) == [pc |-> pc, changed |-> changed, chunk |-> chunk]

\* the variables a step of the save leaves alone
saveFrame == <<storageRefLen, lastMut, saveLog, saveRef, saveWritten, ops, added,
               reloaded, ver, root02, other02, bufVars>>

\* no task is waiting for its children or for the storage
Quiescent == \A p \in DOMAIN task : task[p].pc \notin {"waiting", "writing"}

\* mutant: no task has children to wait for
NoKids(pos) == {}

\* the positions of the children of the node at pos
Kids(pos) == {Append(pos, k) : k \in ForkKeys(NodeAt(root, pos))}

Failed(pos) == task[pos].pc \in {"rejected", "threw"}

\* the task resumes as soon as one child's task is fulfilled
AnyChildSettled(pos) ==
  Kids(pos) = {} \/ \E kid \in Kids(pos) : task[kid].pc = "done"

\* await Promise.all(savePromises) is fulfilled
ChildrenSettled(pos) == \A kid \in Kids(pos) : task[kid].pc = "done"

\* if (!this.forks) this.forks = {} on every node the save descends to
RECURSIVE InitForks(_)
InitForks(n) ==
  [n EXCEPT !.forksDef = TRUE,
            !.forks = [k \in ForkKeys(n) |->
                         MantarayFork(n.forks[k].prefix, InitForks(n.forks[k].node))]]

\* root.save(storageSaver) is called: every recursiveSave runs up to its await
StartSave ==
  /\ ver = "1.0"
  /\ task = <<>>
  /\ root' = InitForks(root)
  /\ task' = [p \in Positions(root) |-> Task("waiting", FALSE, NoChunk)]
  /\ call' = [op |-> "save", path |-> <<>>, err |-> "pending",
              start |-> root, stored |-> store]
  /\ calls' = calls + 1
  /\ UNCHANGED <<store, saveFrame>>

\* the continuation after await Promise.all: return unchanged, or serialize
\* and hand the bytes to storageSaver
ResumeTask(pos) ==
  LET this == NodeAt(root, pos)
      s == serialize(this)
  IN
  /\ pos \in DOMAIN task
  /\ task[pos].pc = "waiting"
  /\ ChildrenSettled(pos)
  /\ IF this.contentAddress # NoRef /\ \A kid \in Kids(pos) : ~task[kid].changed
     THEN /\ task' = [task EXCEPT ![pos] = Task("done", FALSE, NoChunk)]
          /\ root' = root
     ELSE IF s.err
     THEN /\ task' = [task EXCEPT ![pos] = Task("threw", FALSE, NoChunk)]
          /\ root' = UpdateAt(root, pos, s.node)
     ELSE /\ task' = [task EXCEPT ![pos] = Task("writing", FALSE, s.chunk)]
          /\ root' = UpdateAt(root, pos, s.node)
  /\ UNCHANGED <<store, call, calls, saveFrame>>

\* Promise.all rejects as soon as one child's task has rejected
PropagateFailure(pos) ==
  /\ pos \in DOMAIN task
  /\ task[pos].pc = "waiting"
  /\ \E kid \in Kids(pos) : Failed(kid)
  /\ task' = [task EXCEPT ![pos] = Task("rejected", FALSE, NoChunk)]
  /\ UNCHANGED <<root, store, call, calls, saveFrame>>

\* storageSaver resolves: this.contentAddress = reference; changed: true
WriteDone(pos) ==
  /\ pos \in DOMAIN task
  /\ task[pos].pc = "writing"
  /\ store' = store \cup {task[pos].chunk}
  /\ root' = UpdateAt(root, pos,
                      SetContentAddress(NodeAt(root, pos), Ref(task[pos].chunk)))
  /\ task' = [task EXCEPT ![pos] = Task("done", TRUE, task[pos].chunk)]
  /\ UNCHANGED <<call, calls, saveFrame>>

\* storageSaver rejects
WriteRejected(pos) ==
  /\ pos \in DOMAIN task
  /\ task[pos].pc = "writing"
  /\ task' = [task EXCEPT ![pos] = Task("rejected", FALSE, task[pos].chunk)]
  /\ calls' = calls + 1
  /\ UNCHANGED <<root, store, call, saveFrame>>

\* the promise of root.save() has settled and no write is pending
SaveSettled ==
  /\ task # <<>>
  /\ Quiescent
  /\ task' = <<>>
  /\ call' = [call EXCEPT !.err = IF task[<<>>].pc = "done" THEN "none" ELSE "error"]
  /\ UNCHANGED <<root, store, calls, saveFrame>>

\* the positions a trie over PathSetSave can have
PosSetSave == {<<>>, <<1>>, <<2>>, <<1, 2>>, <<1, 3>>}

NextSave ==
  \/ \E path \in PathSetSave :
       calls < MaxCallsSave /\ task = <<>> /\ AddForkCall(path, AttrSave)
  \/ \E path \in PathSetSave :
       calls < MaxCallsSave /\ task = <<>> /\ RemovePathCall(path)
  \/ calls < MaxCallsSave /\ StartSave
  \/ \E pos \in PosSetSave : ResumeTask(pos)
  \/ \E pos \in PosSetSave : PropagateFailure(pos)
  \/ \E pos \in PosSetSave : WriteDone(pos)
  \/ \E pos \in PosSetSave : calls < MaxCallsSave /\ WriteRejected(pos)
  \/ SaveSettled

SpecSave == Init /\ [][NextSave]_vars

\* C20: children before parent.  Whenever the task of a node leaves its await
\* with a result (it returns unchanged, serializes and issues its write, or
\* throws in serialize), every child's task has completed and every child has
\* its content address; the chunk it hands to the storage names every child by
\* that address, and the addresses do not change while the write is pending.
C20_ChildrenBeforeParent ==
  [][\A pos \in DOMAIN task \cap DOMAIN task' :
       /\ (task[pos].pc = "waiting" /\ task'[pos].pc \in {"writing", "done", "threw"})
            => \A kid \in Kids(pos) :
                 /\ task[kid].pc = "done"
                 /\ NodeAt(root, kid).contentAddress # NoRef
       /\ task'[pos].pc = "writing"
            => \A k \in ForkKeys(NodeAt(root', pos)) :
                 /\ task'[Append(pos, k)].pc = "done"
                 /\ NodeAt(root', Append(pos, k)).contentAddress # NoRef
                 /\ task'[pos].chunk.forks[k].reference
                      = NodeAt(root', Append(pos, k)).contentAddress]_vars

\* the root's write is pending after the writes of both its children, one of
\* them a parent itself, have completed
C20_Witness ==
  /\ task # <<>>
  /\ task[<<>>].pc = "writing"
  /\ {<<1>>, <<2>>, <<1, 2>>, <<1, 3>>} \subseteq DOMAIN task
  /\ \A p \in {<<1>>, <<2>>, <<1, 2>>, <<1, 3>>} : task[p].pc = "done" /\ task[p].changed

----------------------------------------------------------------------------
(* addFork on paths around the prefix ceiling: a fork of 31 bytes with a    *)
(* continuous node below it, paths that end at or run through that node,    *)
(* and paths that split the fork above it                                   *)

\* calls made in one behaviour
MaxCallsCont == 3

\* 31, 32 and 33 byte paths sharing their first 31 bytes
Path31 == Rep(1, PrefixMax)
Path32 == Rep(1, PrefixMax) \o <<2>>
Path32b == Rep(1, PrefixMax) \o <<4>>

PathSetCont == {<<1>>, <<1, 1, 9>>, Path31, Path32, Path32b, LongPath}

AttrSetCont == {Attr(E32, NoMeta, NoMeta), Attr(E32b, M1, M2)}

NextCont ==
  \/ \E path \in PathSetCont, attr \in AttrSetCont :
       calls < MaxCallsCont /\ AddForkCall(path, attr)

SpecCont == Init /\ [][NextCont]_vars

\* C21: in every trie built by addFork calls, a node flagged isContinuousNode
\* has exactly one fork, no entry, no node metadata and no fork metadata.
C21_ContinuousInvariant ==
  \A pos \in Positions(root) :
    LET n == NodeAt(root, pos) IN
    n.isContinuousNode
      => /\ Cardinality(ForkKeys(n)) = 1
         /\ ~n.hasEntry
         /\ n.nodeMetadata = NoMeta
         /\ n.forkMetadata = NoMeta

\* the byte sequences the trie spells: for every node holding an entry, the
\* concatenation of the fork prefixes from the root down to it, with the entry
RECURSIVE Spelled(_, _)
Spelled(n, sofar) ==
  (IF n.hasEntry /\ Len(sofar) > 0 THEN {[path |-> sofar, entry |-> n.entry]} ELSE {})
    \cup UNION {Spelled(n.forks[k].node, sofar \o n.forks[k].prefix) : k \in ForkKeys(n)}

\* addFork(path) on the root splits a fork that owns a continuous node
SplitsContinuousFork(path) ==
  /\ Len(path) > 0
  /\ path[1] \in ForkKeys(root)
  /\ root.forks[path[1]].node.isContinuousNode
  /\ CommonLen(root.forks[path[1]].prefix, path, 0) < Len(root.forks[path[1]].prefix)

\* C22: when a successful addFork splits a fork whose child is a continuous
\* node, every path stored before the call is spelled by the prefixes of the
\* new trie as before, with the same entry.
C22_SplitKeepsPaths ==
  [][(call'.op = "addFork" /\ call'.err = "none" /\ SplitsContinuousFork(call'.path))
       => \A sp \in Spelled(root, <<>>) :
            sp.path # call'.path => sp \in Spelled(root', <<>>)]_vars

\* the same, for the splits of a fork whose continuous node has one fork and
\* no entry
C22_SplitKeepsPathsOfValid ==
  [][(/\ call'.op = "addFork" /\ call'.err = "none"
      /\ SplitsContinuousFork(call'.path)
      /\ C21_ContinuousInvariant)
       => \A sp \in Spelled(root, <<>>) :
            sp.path # call'.path => sp \in Spelled(root', <<>>)]_vars

\* C23: after every addFork, removePath, save and serialize call, a 1.0 node
\* whose isEdge flag is set has at least one fork.
C23_EdgeHasForks ==
  \A pos \in Positions(root) :
    NodeAt(root, pos).isEdge => ForkKeys(NodeAt(root, pos)) # {}

----------------------------------------------------------------------------
(* Assignments to the entry of one node, and its serialisation *)

\* calls made in one behaviour
MaxCallsEntry == 4

\* undefined, two 32 byte references and a 64 byte reference
EntrySetCall == {NoRef, E32, E32b, E64}

\* node.entry = entry on the 1.0 root
SetEntryCall(entry) ==
  /\ ver = "1.0"
  /\ root' = SetEntry(root, entry)
  /\ call' = [op |-> "setEntry", path |-> <<>>, err |-> "none", entry |-> entry]
  /\ calls' = calls + 1
  /\ UNCHANGED <<store, added, callFrame>>

NextEntry ==
  \/ \E entry \in EntrySetCall : calls < MaxCallsEntry /\ SetEntryCall(entry)
  \/ calls < MaxCallsEntry /\ SerializeCall(<<>>)
  \/ calls < MaxCallsEntry /\ SaveCall

SpecEntry == Init /\ [][NextEntry]_vars

\* C24: after any sequence of assignments to the entry, encEntry implies
\* hasEntry and encEntry is set exactly when the node has an entry of 64
\* bytes; the entry bytes of a chunk that serialize returns have the length
\* the hasEntry and encEntry bits of its nodeFeatures byte announce.
C24_EntryFlags ==
  /\ root.encEntry => root.hasEntry
  /\ root.encEntry <=> (root.hasEntry /\ root.entry.len = 64)
  /\ (call.op = "serialize" /\ call.err = "none")
       => call.chunk.entry.len
            = (IF call.chunk.nodeFeatures % 2 = 0 THEN 0
               ELSE IF (call.chunk.nodeFeatures \div 2) % 2 = 1 THEN 64 ELSE 32)

----------------------------------------------------------------------------
\* a dirty node with neither an entry nor a fork
Payloadless(n) == isDirty(n) /\ n.entry = NoRef /\ ForkKeys(n) = {}

\* C25: a save of a tree that contains a dirty node with neither an entry nor
\* a fork fails and writes nothing for that node; a save in which the storage
\* rejected a write fails.
C25_DirtyWithoutPayload ==
  [][Len(saveLog') = Len(saveLog) + 1
       => /\ \A pos \in Positions(root) :
               Payloadless(NodeAt(root, pos))
                 => LastSave' # "ok" /\ pos \notin saveWritten'
          /\ ops' = ops + 1 => LastSave' # "ok"]_vars

----------------------------------------------------------------------------
(* addFork calls that throw: a reference of a wrong length, a value that is *)
(* no metadata mapping, no key generator under an obfuscated root           *)

\* calls made in one behaviour
MaxCallsAtom == 3

\* a 16 byte array handed over as entry
ShortRef == [len |-> 16, id |-> [data |-> 4]]

\* a non-zero obfuscation key
SomeKey == 1

PathSetAtom == {<<1>>, <<1, 2>>, Path32, LongPath}

AttrSetAtom ==
  {Attr(E32, NoMeta, NoMeta), Attr(ShortRef, NoMeta, NoMeta),
   Attr(E32b, ArrayMeta, NoMeta), Attr(E32b, M1, ArrayMeta)}

\* root.obfuscationKey = key
SetObfuscationKeyCall(key) ==
  /\ ver = "1.0"
  /\ root' = SetObfuscationKey(root, key)
  /\ call' = Called("setObfuscationKey", <<>>, "none")
  /\ calls' = calls + 1
  /\ UNCHANGED <<store, added, callFrame>>

NextAtom ==
  \/ \E path \in PathSetAtom, attr \in AttrSetAtom :
       calls < MaxCallsAtom /\ AddForkCall(path, attr)
  \/ calls < MaxCallsAtom /\ SetObfuscationKeyCall(SomeKey)
  \/ calls < MaxCallsAtom /\ SaveCall

SpecAtom == Init /\ [][NextAtom]_vars

\* C26: an addFork call that throws leaves the trie as it was: the same
\* forks under the same prefixes, the same entries, metadata and flags, no
\* node made dirty (a fork map left undefined or empty counts as the same).
C26_AddForkAtomic ==
  [][(call'.op = "addFork" /\ call'.err = "error")
       => InitForks(root') = InitForks(root)]_vars

----------------------------------------------------------------------------
(* load into a node that has been used: the root is built, saved and then   *)
(* loaded from one of the chunks in the storage                             *)

\* calls made in one behaviour
MaxCallsLoad == 4

PathSetLoad == {<<1>>, <<1, 2>>}

AttrSetLoad == {Attr(E32, NoMeta, NoMeta), Attr(E32b, M1, NoMeta)}

\* root.load(storageLoader, reference), reference being that of a stored chunk
LoadCall(chunk) ==
  LET l == load(root, Ref(chunk)) IN
  /\ ver = "1.0"
  /\ root' = l.node
  /\ call' = [op |-> "load", path |-> <<>>,
              err |-> IF l.err THEN "error" ELSE "none", ref |-> Ref(chunk)]
  /\ calls' = calls + 1
  /\ UNCHANGED <<store, added, callFrame>>

NextLoad ==
  \/ \E path \in PathSetLoad, attr \in AttrSetLoad :
       calls < MaxCallsLoad /\ AddForkCall(path, attr)
  \/ calls < MaxCallsLoad /\ SaveCall
  \/ \E chunk \in store : calls < MaxCallsLoad /\ LoadCall(chunk)

SpecLoad == Init /\ [][NextLoad]_vars

\* C27: after a successful load into a node that held state, the node is
\* the node a new MantarayNode becomes by loading the same reference: its
\* entry, metadata, flags and forks are those of the loaded bytes, its
\* contentAddress is the reference and it is not dirty.
C27_LoadReplacesState ==
  [][(call'.op = "load" /\ call'.err = "none")
       => /\ InitForks(root') = InitForks(load(NewNode, call'.ref).node)
          /\ root'.contentAddress = call'.ref
          /\ ~isDirty(root')]_vars

----------------------------------------------------------------------------
(* encryptDecrypt applied once to a range [startIndex, endIndex) of a buffer *)

\* ranges that end inside the buffer, on and off the key-sized chunks
RangeStartSet == {0, 1, 33}
RangeEndSet == {1, 10, 32, 33, 65, 70}

InitXorRange ==
  /\ InitTrie
  /\ InitCalls("1.0")
  /\ data \in BufferSet
  /\ \E key \in KeySet \ {Rep(0, KeyBytes)},
        startIndex \in RangeStartSet, endIndex \in RangeEndSet :
       /\ startIndex <= endIndex
       /\ endIndex <= Len(data)
       /\ xorArgs = [key |-> key, startIndex |-> startIndex, endIndex |-> endIndex,
                     original |-> data, once |-> data]

\* encryptDecrypt(key, data, startIndex, endIndex)
EncryptDecryptRange ==
  /\ calls < 1
  /\ data' = encryptDecrypt(xorArgs.key, data, xorArgs.startIndex, xorArgs.endIndex)
  /\ xorArgs' = [xorArgs EXCEPT !.once = data']
  /\ calls' = calls + 1
  /\ call' = Called("encryptDecrypt", <<>>, "none")
  /\ UNCHANGED <<ver, root02, other02, trieVars, task>>

NextXorRange == EncryptDecryptRange

SpecXorRange == InitXorRange /\ [][NextXorRange]_vars

\* C28: with a non-zero key, encryptDecrypt(key, data, from, to) leaves every
\* byte at an index i with from <= i < to as data[i] XOR key[(i - from) mod 32]
\* and every other byte as it was, for every to <= data.length.
C28_XorRange ==
  calls = 1
    => \A p \in 1..Len(data) :
         data[p] = IF xorArgs.startIndex <= p - 1 /\ p - 1 < xorArgs.endIndex
                   THEN Xor(xorArgs.original[p],
                            xorArgs.key[((p - 1 - xorArgs.startIndex) % KeyBytes) + 1])
                   ELSE xorArgs.original[p]

----------------------------------------------------------------------------
(* removePath on a trie with a subtree below the removed path and with      *)
(* paths beside it                                                          *)

\* calls made in one behaviour
MaxCallsRemove == 4

PathSetRemove == {<<1>>, <<1, 2>>, <<1, 3>>, <<2>>, LongPath}

AttrSetRemove == {Attr(E32, NoMeta, NoMeta), Attr(E32b, M1, M2)}

NextRemove ==
  \/ \E path \in PathSetRemove, attr \in AttrSetRemove :
       calls < MaxCallsRemove /\ AddForkCall(path, attr)
  \/ \E path \in PathSetRemove :
       calls < MaxCallsRemove /\ RemovePathCall(path)

SpecRemove == Init /\ [][NextRemove]_vars

\* what getForkAtPath(path) gives: whether the path is found, and the prefix,
\* entry and metadata of the fork it returns
Lookup(n, path) ==
  LET g == getForkAtPath(n, path) IN
  [found |-> g.err = "none",
   prefix |-> IF g.err = "none" THEN g.fork.prefix ELSE <<>>,
   attr |-> IF g.err = "none" THEN Carried(g.fork.node) ELSE NoAttr]

\* C29: after a successful removePath(p), no path of the trie that has p as a
\* prefix is found by getForkAtPath, and every other path is looked up with
\* the result it had before: found or not, the same prefix, entry and metadata.
C29_RemovesSubtreeOnly ==
  [][(call'.op = "removePath" /\ call'.err = "none")
       => \A q \in PathSetRemove :
            IF isPrefixedBy(q, call'.path)
            THEN ~Lookup(root', q).found
            ELSE Lookup(root', q) = Lookup(root, q)]_vars

\* removePath([1]) has succeeded on a trie that held [1], [1,2] and [2]:
\* [1,2] went with it and [2] is still found
C29_Witness ==
  /\ call.op = "removePath" /\ call.err = "none" /\ call.path = <<1>>
  /\ calls = MaxCallsRemove
  /\ {a.path : a \in added.pairs} = {<<1>>, <<1, 2>>, <<2>>}
  /\ ~Lookup(root, <<1, 2>>).found
  /\ Lookup(root, <<2>>).found

----------------------------------------------------------------------------
\* the fields of a node itself, without the nodes below it
Own(n) == [n EXCEPT !.forks = [k \in ForkKeys(n) |-> n.forks[k].prefix]]

\* C30: whatever the order in which the tasks of one save resume and their
\* writes complete or are rejected, the save ends with the chunks, the
\* contentAddress of every node and the root reference that saving the
\* children one after the other gives with the same writes rejected; and a
\* step of the save changes a node only together with the task of that node.
C30_SaveOrderIndependent ==
  [][/\ (task # <<>> /\ task' = <<>>)
          => LET failing == {pos \in DOMAIN task :
                               task[pos].pc = "rejected" /\ task[pos].chunk # NoChunk}
                 r == recursiveSave(call.start, <<>>, failing)
             IN /\ r.ok <=> call'.err = "none"
                /\ root' = r.node
                /\ store' = call.stored \cup r.chunks
                /\ r.ok => root'.contentAddress = r.reference
     /\ \A pos \in DOMAIN task \cap DOMAIN task' :
          Own(NodeAt(root', pos)) # Own(NodeAt(root, pos)) => task'[pos] # task[pos]]_vars

\* every task of a save over five nodes has written its node: the two
\* children of the root and the two children below one of them
C30_Witness ==
  /\ DOMAIN task = PosSetSave
  /\ \A pos \in PosSetSave : task[pos].pc = "done" /\ task[pos].changed
  /\ store = {task[pos].chunk : pos \in PosSetSave}

====
